---- MODULE Spec2Model ----
(***************************************************************************)
(* Model of lab2_image_capture_gui.py: a Tkinter frame that previews a     *)
(* webcam (video_loop, re-armed with after()) and saves frames to          *)
(* numbered .jpg files (save_image), numbering them from the count of .jpg *)
(* images found in the output folder (get_current_count).                  *)
(*                                                                         *)
(* File names are sequences of one-character strings, so that str(),       *)
(* the zero padding, os.path.splitext and str.lower are computed.          *)
(* One action is one run of a Tk callback or of the script's start-up;     *)
(* the event loop is single-threaded, so a callback runs to its end.       *)
(***************************************************************************)
EXTENDS Integers, Sequences, FiniteSets, TLC

\* ---------------------------------------------------------------- bounds
MaxSaves == 3        \* clicks on the Save button
MaxExt == 2          \* additions/deletions made by other programs
NumFrames == 1       \* distinct pictures the camera can deliver
MaxShutdowns == 2    \* invocations of destructor

\* ------------------------------------------------------------- characters
DigitChars == <<"0", "1", "2", "3", "4", "5", "6", "7", "8", "9">>

RECURSIVE str(_)
\* str(self.count): decimal digits of a non-negative integer
str(n) == IF n < 10 THEN <<DigitChars[n + 1]>>
          ELSE str(n \div 10) \o <<DigitChars[(n % 10) + 1]>>

\* str.lower over the characters that occur in the modelled names
LowerChar(c) == CASE c = "J" -> "j"
                  [] c = "P" -> "p"
                  [] c = "G" -> "g"
                  [] OTHER -> c
lower(s) == [i \in 1..Len(s) |-> LowerChar(s[i])]

\* os.path.splitext(i)[1]: the text from the last dot on, or "" when there
\* is no dot or when only dots precede the last dot (a leading-dot name)
splitext(p) ==
    LET dots == {i \in 1..Len(p) : p[i] = "."}
        dotIndex == IF dots = {} THEN 0
                    ELSE CHOOSE i \in dots : \A j \in dots : j <= i
    IN  IF dotIndex > 0 /\ \E k \in 1..(dotIndex - 1) : p[k] # "."
        THEN SubSeq(p, dotIndex, Len(p))
        ELSE <<>>

valid_images == {<<".", "j", "p", "g">>}

\* ------------------------------------------------------------ file names
\* current = '00000000'; new = current[len(str(count)):] + str(count);
\* filename = new + '.jpg'
MakeFilename_FromZero(cnt) ==
    LET current == <<"0", "0", "0", "0", "0", "0", "0", "0">>
        s == str(cnt - 1)
    IN  SubSeq(current, Len(s) + 1, Len(current)) \o s \o <<".", "j", "p", "g">>
MakeFilename(cnt) ==
    LET current == <<"0", "0", "0", "0", "0", "0", "0", "0">>
        s == str(cnt)
    IN  SubSeq(current, Len(s) + 1, Len(current)) \o s \o <<".", "j", "p", "g">>

\* a file: what Image.open makes of it, who wrote it, and the number of the
\* save that wrote it (0 for another program); a save writes a JPEG image
ExtFile(kind) == [kind |-> kind, by |-> "ext", seq |-> 0]
SavedFile(n) == [kind |-> "image", by |-> "save", seq |-> n]

\* what other programs put into the folder: a .JPG that is or is not an
\* image, a text file, and a dot-file called ".jpg" (which has no extension)
ExtEntries == { <<<<"a", ".", "J", "P", "G">>, "image">>,
                <<<<"a", ".", "J", "P", "G">>, "junk">>,
                <<<<"n", ".", "t", "x", "t">>, "junk">>,
                <<<<".", "j", "p", "g">>, "junk">> }

EmptyDir == [x \in {} |-> ExtFile("image")]
AddFile(dir, name, f) == [x \in (DOMAIN dir) \cup {name} |->
                             IF x = name THEN f ELSE dir[x]]
RemoveFile(dir, name) == [x \in (DOMAIN dir) \ {name} |-> dir[x]]

\* ---------------------------------------------------- get_current_count
\* the result of a call: the value returned, or the exception that left it
Returned(n) == [raised |-> FALSE, n |-> n]
Raised == [raised |-> TRUE, n |-> 0]

RECURSIVE CountLoop_CaseSensitive(_, _, _)
CountLoop_CaseSensitive(dir, todo, imgs) ==
    IF todo = {} THEN Returned(imgs)
    ELSE LET i == CHOOSE x \in todo : TRUE
             ext == splitext(i)
         IN  IF ext \notin valid_images
             THEN CountLoop_CaseSensitive(dir, todo \ {i}, imgs)
             ELSE IF dir[i].kind # "image" THEN Raised
             ELSE CountLoop_CaseSensitive(dir, todo \ {i}, imgs + 1)

RECURSIVE CountLoop(_, _, _)
\* for i in os.listdir(folder): skip other extensions, Image.open the rest
\* (Image.open raises on a file that is not an image); imgs is len(imgs)
CountLoop(dir, todo, imgs) ==
    IF todo = {} THEN Returned(imgs)
    ELSE LET i == CHOOSE x \in todo : TRUE
             ext == splitext(i)
         IN  IF lower(ext) \notin valid_images
             THEN CountLoop(dir, todo \ {i}, imgs)
             ELSE IF dir[i].kind # "image" THEN Raised
             ELSE CountLoop(dir, todo \ {i}, imgs + 1)

get_current_count_CaseSensitive(exists, dir) ==
    IF ~exists THEN Raised ELSE CountLoop_CaseSensitive(dir, DOMAIN dir, 0)
\* os.listdir raises when the folder does not exist
get_current_count(exists, dir) ==
    IF ~exists THEN Raised ELSE CountLoop(dir, DOMAIN dir, 0)

\* self.count = self.get_current_count(self.output_path) + 1
NextCount_Cached(cached, r) == cached + 1
NextCount(cached, r) == r.n + 1

\* ------------------------------------------------------------ the camera
NoFrame == 0
Frames == 1..NumFrames
\* ok, frame = self.vs.read(): a device that is not open delivers nothing
Reads(cam) == IF cam = "open" THEN Frames \cup {NoFrame} ELSE {NoFrame}

\* BGR->RGB, ImageOps.crop(.., (200,0,200,0)), ImageOps.mirror. The camera
\* is wide, as the code takes it to be (line 100): frames narrower than two
\* margins, on which the crop is not defined, are not among Frames.
CropMargin == 200
Transform(frame) == [src |-> frame, crop |-> CropMargin, mirrored |-> TRUE]
NoImage == [src |-> NoFrame, crop |-> 0, mirrored |-> FALSE]

\* if ret: saved = cv2.imwrite(path, frame)
Wrote_IgnoreRet(ret, wok) == wok
Wrote(ret, wok) == ret /\ wok

\* self.after(30, self.video_loop), outside the "if ok:" block
ScheduleNext_OnlyOnSuccess(ok, p) == IF ok THEN p + 1 ELSE p
ScheduleNext(ok, p) == p + 1

VARIABLES
    phase,          \* "start", "running", "crashed" (start-up raised), "closed"
    dirExists,      \* os.path.exists(output_path)
    files,          \* the folder: name -> file
    vs,             \* cv2.VideoCapture: "none", "open", "unavailable", "released"
    count,          \* self.count
    current_image,  \* self.current_image / the image the panel shows
    pending,        \* after() callbacks waiting in the event loop
    console,        \* the last line printed
    nsaves,         \* runs of save_image so far
    lastSave,       \* what the last run of save_image did
    clean,          \* folder started empty, nobody else touched it, no failure
    nExt,           \* changes made by other programs so far
    createFailed,   \* create_directory printed the failure
    lastCount,      \* last result of get_current_count, stale after a change
    tick,           \* the last run of video_loop: parity and read outcome
    shutdown        \* runs of destructor and what they did

vars == <<phase, dirExists, files, vs, count, current_image, pending, console,
          nsaves, lastSave, clean, nExt, createFailed, lastCount, tick, shutdown>>

NoSave == [raised |-> FALSE, read |-> FALSE, wok |-> FALSE, wrote |-> FALSE,
           name |-> <<>>]

\* folders the program may be started on
InitDirs == {EmptyDir}
            \cup {AddFile(EmptyDir, e[1], ExtFile(e[2])) : e \in ExtEntries}

Init ==
    /\ phase = "start"
    /\ dirExists \in BOOLEAN
    /\ files \in (IF dirExists THEN InitDirs ELSE {EmptyDir})
    /\ vs = "none"
    /\ count = 0
    /\ current_image = NoImage
    /\ pending = 0
    /\ console = "[INFO] starting..."
    /\ nsaves = 0
    /\ lastSave = NoSave
    /\ clean = (files = EmptyDir)
    /\ nExt = 0
    /\ createFailed = FALSE
    /\ lastCount = [called |-> FALSE, stale |-> FALSE, res |-> Returned(0)]
    /\ tick = [flip |-> FALSE, ok |-> TRUE]
    /\ shutdown = [calls |-> 0, raised |-> FALSE, openAtDestroy |-> FALSE]

\* ------------------------------------------------------------- start-up
\* try: os.makedirs(folder) ... except OSError: ... return -1
\* mk: whether os.makedirs succeeds; gives the folder's existence afterwards
create_directory(mk) == mk

\* ImageCaptureFrame(gui, args.output): __init__ up to and including the
\* first call of video_loop. An exception leaves the script (no handler).
Construct(mk, camAvail, rd) ==
    /\ phase = "start"
    /\ LET cam == IF camAvail THEN "open" ELSE "unavailable"
           exists1 == IF ~dirExists THEN create_directory(mk) ELSE TRUE
           r == get_current_count(exists1, files)
           ok == rd # NoFrame
       IN  /\ rd \in Reads(cam)
           /\ vs' = cam
           /\ dirExists' = exists1
           /\ createFailed' = (~dirExists /\ ~exists1)
           /\ lastCount' = [called |-> TRUE, stale |-> FALSE, res |-> r]
           /\ IF r.raised
              THEN /\ phase' = "crashed"
                   /\ console' = IF dirExists THEN console
                                 ELSE IF exists1
                                      THEN "Successfully created the directory"
                                      ELSE "Creation of the directory failed."
                   /\ UNCHANGED <<count, current_image, pending, tick>>
              ELSE /\ phase' = "running"
                   /\ count' = NextCount(count, r)
                   /\ console' = "[INFO] current count"
                   /\ current_image' = IF ok THEN Transform(rd) ELSE current_image
                   /\ pending' = ScheduleNext(ok, pending)
                   /\ tick' = [flip |-> ~tick.flip, ok |-> ok]
    /\ UNCHANGED <<files, nsaves, lastSave, clean, nExt, shutdown>>

\* ---------------------------------------------------------- video_loop
\* one after() callback: it leaves the queue, reads, shows, re-arms
Tick(rd) ==
    /\ phase = "running"
    /\ pending > 0
    /\ rd \in Reads(vs)
    /\ LET ok == rd # NoFrame
       IN  /\ current_image' = IF ok THEN Transform(rd) ELSE current_image
           /\ pending' = ScheduleNext(ok, pending - 1)
           /\ tick' = [flip |-> ~tick.flip, ok |-> ok]
    /\ UNCHANGED <<phase, dirExists, files, vs, count, console, nsaves,
                   lastSave, clean, nExt, createFailed, lastCount, shutdown>>

\* ---------------------------------------------------------- save_image
\* the Save button's command. wok: whether cv2.imwrite can write the file.
\* An exception from get_current_count ends the callback (Tk reports it).
SaveImage(rd, wok) ==
    /\ phase = "running"
    /\ nsaves < MaxSaves
    /\ rd \in Reads(vs)
    /\ nsaves' = nsaves + 1
    /\ LET r == get_current_count(dirExists, files)
           cnt == NextCount(count, r)
           filename == MakeFilename(cnt)
           ret == rd # NoFrame
           w == Wrote(ret, wok)
       IN  /\ lastCount' = [called |-> TRUE, stale |-> (~r.raised /\ w), res |-> r]
           /\ IF r.raised
              THEN /\ lastSave' = [raised |-> TRUE, read |-> FALSE, wok |-> FALSE,
                                   wrote |-> FALSE, name |-> <<>>]
                   /\ clean' = FALSE
                   /\ UNCHANGED <<count, files, console>>
              ELSE /\ count' = cnt
                   /\ files' = IF w THEN AddFile(files, filename,
                                                 SavedFile(nsaves + 1))
                               ELSE files
                   /\ console' = IF ret THEN "save successful." ELSE "new save:"
                   /\ lastSave' = [raised |-> FALSE, read |-> ret,
                                   wok |-> (ret /\ wok), wrote |-> w,
                                   name |-> filename]
                   /\ clean' = (clean /\ ret /\ wok)
    /\ UNCHANGED <<phase, dirExists, vs, current_image, pending, nExt,
                   createFailed, tick, shutdown>>

\* ---------------------------------------------------------- destructor
\* self.vs.release(): a no-op on a device that is not open
Release(v) == IF v = "open" THEN "released" ELSE v

\* the WM_DELETE_WINDOW handler: release, destroyAllWindows, master.destroy();
\* destroying a Tk root that is already destroyed raises TclError
Destructor ==
    /\ phase \in {"running", "closed"}
    /\ shutdown.calls < MaxShutdowns
    /\ console' = "[INFO] closing..."
    /\ vs' = Release(vs)
    /\ phase' = "closed"
    /\ shutdown' = [calls |-> shutdown.calls + 1,
                    raised |-> (phase = "closed"),
                    openAtDestroy |-> (vs' = "open")]
    /\ UNCHANGED <<dirExists, files, count, current_image, pending, nsaves,
                   lastSave, clean, nExt, createFailed, lastCount, tick>>

\* ------------------------------------------------------ other programs
ExtAdd(name, kind) ==
    /\ phase = "running"
    /\ nExt < MaxExt
    /\ name \notin DOMAIN files
    /\ files' = AddFile(files, name, ExtFile(kind))
    /\ nExt' = nExt + 1
    /\ clean' = FALSE
    /\ lastCount' = [lastCount EXCEPT !.stale = TRUE]
    /\ UNCHANGED <<phase, dirExists, vs, count, current_image, pending, console,
                   nsaves, lastSave, createFailed, tick, shutdown>>

ExtDelete(name) ==
    /\ phase = "running"
    /\ nExt < MaxExt
    /\ name \in DOMAIN files
    /\ files' = RemoveFile(files, name)
    /\ nExt' = nExt + 1
    /\ clean' = FALSE
    /\ lastCount' = [lastCount EXCEPT !.stale = TRUE]
    /\ UNCHANGED <<phase, dirExists, vs, count, current_image, pending, console,
                   nsaves, lastSave, createFailed, tick, shutdown>>

AnyTick == \E rd \in Frames \cup {NoFrame} : Tick(rd)

Next ==
    \/ \E mk \in BOOLEAN, camAvail \in BOOLEAN, rd \in Frames \cup {NoFrame} :
           Construct(mk, camAvail, rd)
    \/ AnyTick
    \/ \E rd \in Frames \cup {NoFrame}, wok \in BOOLEAN : SaveImage(rd, wok)
    \/ Destructor
    \/ \E e \in ExtEntries : ExtAdd(e[1], e[2])
    \/ \E name \in DOMAIN files : ExtDelete(name)

Spec == Init /\ [][Next]_vars

\* Tk's event loop runs a due after() callback
FairSpec == Spec /\ WF_vars(AnyTick)

TypeOK ==
    /\ phase \in {"start", "running", "crashed", "closed"}
    /\ dirExists \in BOOLEAN
    /\ vs \in {"none", "open", "unavailable", "released"}
    /\ count \in Nat
    /\ pending \in Nat
    /\ nsaves \in 0..MaxSaves
    /\ nExt \in 0..MaxExt

\* ======================================================= properties
\* the 8-digit zero-padded decimal numeral of n, digit by digit
RECURSIVE Pow10(_)
Pow10(k) == IF k = 0 THEN 1 ELSE 10 * Pow10(k - 1)
Pad8(n) == [i \in 1..8 |-> DigitChars[((n \div Pow10(8 - i)) % 10) + 1]]
NumberedJpg(n) == Pad8(n) \o <<".", "j", "p", "g">>

\* the extensions that match .jpg whatever the case
JpgExts == {<<".", a, b, c>> : a \in {"j", "J"}, b \in {"p", "P"}, c \in {"g", "G"}}
\* the entries with such an extension, and those of them that open as images
JpgEntries(dir) == {n \in DOMAIN dir : splitext(n) \in JpgExts}
ValidImages(dir) == {n \in JpgEntries(dir) : dir[n].kind = "image"}

SaveStep == nsaves' # nsaves

C2_NeverOverwrites ==
    [][SaveStep =>
          /\ \A n \in DOMAIN files : n \in DOMAIN files' /\ files'[n] = files[n]
          /\ lastSave'.wrote => lastSave'.name \notin DOMAIN files]_vars

\* C3: a save whose camera read fails writes no file: the folder is the same
\* and a count taken afterwards equals the count taken before.
C3_FailedReadWritesNothing ==
    [][(SaveStep /\ ~lastSave'.raised /\ ~lastSave'.read) =>
          /\ files' = files
          /\ get_current_count(dirExists', files')
               = get_current_count(dirExists, files)]_vars

C3_Witness ==
    /\ nsaves > 1 /\ vs = "open"
    /\ ~lastSave.raised /\ ~lastSave.read
    /\ ValidImages(files) # {}

C6_UnopenableSkipped ==
    /\ (phase = "crashed") => ~dirExists
    /\ (lastCount.called /\ dirExists) => ~lastCount.res.raised
    /\ nsaves > 0 => ~lastSave.raised

\* C7: when the folder is missing and cannot be created, the failure is
\* printed and start-up completes: the preview loop is started.
C7_CreateFailureNotFatal ==
    createFailed => (phase \in {"running", "closed"} /\ pending > 0)

\* C8: after a save whose read succeeded, success is printed exactly when
\* the file was written.
C8_ReportMatchesWrite ==
    [][(SaveStep /\ lastSave'.read) =>
          ((console' = "save successful.") <=> lastSave'.wrote)]_vars

\* C9: every run of destructor, the second included, ends without error,
\* with the camera released, and released before the window is destroyed.
C9_ShutdownIdempotent ==
    shutdown.calls > 0 =>
        /\ ~shutdown.raised
        /\ vs # "open"
        /\ ~shutdown.openAtDestroy

====
